---- MODULE Spec2Model ----
(***************************************************************************)
(* Sakila FastAPI service (src/main.py, src/schemas.py).                   *)
(*                                                                         *)
(* State: the process-wide revoked_tokens set, the clock that token expiry *)
(* is measured against, and one record per request in flight holding the   *)
(* handler's position, its locals (connection, cursor, rowcount) and the   *)
(* response or exception it ended with.                                    *)
(*                                                                         *)
(* Workload: client "c1" issues requests to every route, one after the     *)
(* other; client "c2" concurrently issues DELETE /token requests.  Handlers *)
(* share nothing but revoked_tokens, so every interleaving of a handler    *)
(* with concurrent revocations is covered.  The database server and the    *)
(* auth module are outside src/: the database answers nondeterministically *)
(* (success or mysql.connector.Error, any row count), and the auth module  *)
(* is modelled from the specification.                                     *)
(***************************************************************************)
EXTENDS Integers, Sequences, FiniteSets, TLC

VARIABLES revoked_tokens, now, req, revokeDone

vars == <<revoked_tokens, now, req, revokeDone>>

(* ------------------------------ bounds -------------------------------- *)

\* The clock runs from 0 to MaxTime.
MaxTime == 2

\* The database reports between 0 and MaxRows affected / fetched rows.
MaxRows == 1

(* ----------------------------- constants ------------------------------ *)

\* Token lifetime in clock ticks (auth.encode_token).
TokenTTL == 2

\* schemas.CustomerCreate: constr(min_length=1, max_length=45), constr(min_length=8).
MinNameLen == 1
MaxNameLen == 45
MinPasswordLen == 8

(* ------------------------------ routes -------------------------------- *)

PublicRoutes ==
    {"get_all_films", "get_films_by_category", "get_active_customers", "get_customer"}

InsertRoutes == {"create_customer", "add_new_film"}

MutateRoutes ==
    {"update_customer_address", "update_film_title", "delete_customer", "delete_film"}

ProtectedRoutes == InsertRoutes \cup MutateRoutes

DbRoutes == PublicRoutes \cup ProtectedRoutes

\* The clients: c1 calls every route, c2 revokes tokens concurrently.
Reqs == {"c1", "c2"}
Callers == {"c1"}

(* ------------------------------ tokens -------------------------------- *)

\* A bearer string: a signed token (subject, expiry), or a string that does not
\* verify.  NoToken stands for "no credentials on this request".
NoToken == [sub |-> "", exp |-> 0, sig |-> "none"]
Garbage == [sub |-> "", exp |-> 0, sig |-> "bad"]
TokenExps == {1, 2}
Tokens == {[sub |-> "admin", exp |-> e, sig |-> "good"] : e \in TokenExps} \cup {Garbage}

Usernames == {"admin", "guest"}
Passwords == {"secret", "wrong"}

\* auth.AuthHandler.authenticate: exactly one accepted pair.
authenticate(username, password) == username = "admin" /\ password = "secret"

\* auth.AuthHandler.encode_token: subject and expiry, signed.
encode_token(username, t) == [sub |-> username, exp |-> t + TokenTTL, sig |-> "good"]

\* auth.AuthHandler.decode_token: verifies signature and expiry, else 401.
decode_token(token, t) ==
    IF token.sig = "good" /\ t < token.exp
    THEN [ok |-> TRUE, status |-> 0, detail |-> token.sub]
    ELSE [ok |-> FALSE, status |-> 401, detail |-> "Invalid token"]

\* jwt_required with the revocation test after the decode.
jwt_required_decode_first(token, revoked, t) ==
    IF ~decode_token(token, t).ok THEN decode_token(token, t)
    ELSE IF token \in revoked
    THEN [ok |-> FALSE, status |-> 401, detail |-> "Token has been revoked"]
    ELSE decode_token(token, t)

\* jwt_required without the revocation test.
jwt_required_no_revocation_test(token, revoked, t) == decode_token(token, t)

\* main.jwt_required: the authorization gate of the protected routes.
jwt_required(token, revoked, t) ==
    IF token \in revoked
    THEN [ok |-> FALSE, status |-> 401, detail |-> "Token has been revoked"]
    ELSE decode_token(token, t)

\* revoke_token replacing the set by the one token.
revoke_add_overwrite(revoked, token) == {token}

\* revoke_token removing a token that is already in the set.
revoke_add_toggle(revoked, token) ==
    IF token \in revoked THEN revoked \ {token} ELSE revoked \cup {token}

\* main.revoke_token, line 88: revoked_tokens.add(token).
revoke_add(revoked, token) == revoked \cup {token}

\* refresh_token revoking the token it refreshes.
refresh_revokes_old(revoked, old_token) == revoked \cup {old_token}

\* main.refresh_token: the handler has no statement that changes revoked_tokens.
refresh_effect_on_revoked(revoked, old_token) == revoked

(* ----------------------------- payloads ------------------------------- *)

\* A POST /customers/new body: the lengths of the name and password strings, the
\* email as a sequence of characters, and whether every field main.CustomerCreate
\* declares is present with its declared type.
NoPayload ==
    [first_name |-> 0, last_name |-> 0, email |-> <<>>, password |-> 0, typed |-> FALSE]
GoodEmail == <<"a", "@", "b", ".", "c">>
GoodPayload ==
    [first_name |-> 1, last_name |-> 45, email |-> GoodEmail, password |-> 8, typed |-> TRUE]
Payloads ==
    { GoodPayload,
      [GoodPayload EXCEPT !.first_name = 46],
      [GoodPayload EXCEPT !.last_name = 0],
      [GoodPayload EXCEPT !.email = <<"a", "b", ".", "c">>],
      [GoodPayload EXCEPT !.email = <<"a", "@", "b">>],
      [GoodPayload EXCEPT !.password = 7],
      [GoodPayload EXCEPT !.typed = FALSE] }

\* pydantic EmailStr: one "@", a non-empty local part, a dotted domain.
EmailStr(e) ==
    \E i \in 1..Len(e) :
        /\ e[i] = "@"
        /\ \A j \in 1..Len(e) : e[j] = "@" => j = i
        /\ i > 1
        /\ \E k \in (i + 2)..(Len(e) - 1) : e[k] = "."

\* schemas.CustomerCreate: the validated schema.
schemas_CustomerCreate(p) ==
    /\ p.first_name >= MinNameLen /\ p.first_name <= MaxNameLen
    /\ p.last_name >= MinNameLen /\ p.last_name <= MaxNameLen
    /\ EmailStr(p.email)
    /\ p.password >= MinPasswordLen

\* main.CustomerCreate: required fields with plain types, no constraints.
main_CustomerCreate(p) == p.typed

\* create_customer validating its body against the schema of schemas.py.
create_customer_body_strict(p) == main_CustomerCreate(p) /\ schemas_CustomerCreate(p)

\* The model create_customer declares for its body: main.CustomerCreate, which
\* shadows nothing imported (main.py imports only AuthDetails from schemas).
create_customer_body(p) == main_CustomerCreate(p)

(* --------------------------- route messages --------------------------- *)

NotFoundDetail(route) ==
    CASE route = "get_films_by_category" -> "No films found in this category"
      [] route = "get_active_customers" -> "No active customers found for this store"
      [] route = "get_customer" -> "Customer not found"
      [] route = "update_customer_address" -> "Address not found"
      [] route = "update_film_title" -> "Film not found"
      [] route = "delete_customer" -> "Customer not found"
      [] route = "delete_film" -> "Film not found"
      [] OTHER -> ""

ErrorDetail(route) ==
    CASE route = "create_customer" -> "Error creating customer"
      [] route = "add_new_film" -> "Error adding film"
      [] route = "update_customer_address" -> "Error updating address"
      [] route = "update_film_title" -> "Error updating film title"
      [] route = "delete_customer" -> "Error deleting customer"
      [] route = "delete_film" -> "Error deleting film"
      [] OTHER -> ""

SuccessDetail(route) ==
    CASE route = "create_customer" -> "Customer created successfully"
      [] route = "add_new_film" -> "Film added successfully"
      [] route = "update_customer_address" -> "Address updated"
      [] route = "update_film_title" -> "Film title updated"
      [] route = "delete_customer" -> "Customer deleted"
      [] route = "delete_film" -> "Film deleted"
      [] OTHER -> "rows"

SuccessStatus(route) == IF route \in InsertRoutes THEN 201 ELSE 200

\* A handler that commits whatever the row count.
row_missing_unchecked(route, rowcount) == FALSE

\* The "if cursor.rowcount == 0: raise HTTPException(404)" of the four
\* update / delete handlers; the two insert handlers have no such test.
row_missing(route, rowcount) == route \in MutateRoutes /\ rowcount = 0

\* The "if not rows: raise HTTPException(404)" of the GET handlers;
\* get_all_films has no such test.
rows_missing(route, nrows) == route # "get_all_films" /\ nrows = 0

(* ------------------------------- state -------------------------------- *)

Idle ==
    [ route |-> "none", pc |-> "idle", token |-> NoToken, payload |-> NoPayload,
      revokedAtCheck |-> FALSE, decodedAtCheck |-> FALSE, revokeDoneAtCheck |-> FALSE,
      hashed |-> FALSE, conn |-> "none", cursor |-> "none",
      executed |-> FALSE, commit |-> "none", rowcount |-> -1,
      raised |-> "none", status |-> 0, detail |-> "", issued |-> NoToken,
      overlapped |-> FALSE ]

Init ==
    /\ revoked_tokens = {}
    /\ now = 0
    /\ req = [r \in Reqs |-> Idle]
    /\ revokeDone = {}

\* A client sends its next request once the previous one has been answered.
Free(r) == req[r].pc \in {"idle", "done"}

\* The request ends with "raise HTTPException(status_code, detail)".
Raise(q, status, detail) ==
    [q EXCEPT !.pc = "done", !.raised = "HTTPException", !.status = status, !.detail = detail]

\* The request ends with a mysql.connector.Error leaving the handler.
RaiseDbError(q) == [q EXCEPT !.pc = "done", !.raised = "mysql.connector.Error"]

\* The request ends with the handler returning.
Return(q, status, detail) == [q EXCEPT !.pc = "done", !.status = status, !.detail = detail]

\* What the request's check of revoked_tokens could see when it ran.
Checked(q, token) ==
    [q EXCEPT !.token = token,
              !.revokedAtCheck = token \in revoked_tokens,
              !.decodedAtCheck = decode_token(token, now).ok,
              !.revokeDoneAtCheck = token \in revokeDone]

(* ------------------------------ actions ------------------------------- *)

\* The clock advances.
Tick ==
    /\ now < MaxTime
    /\ now' = now + 1
    /\ UNCHANGED <<revoked_tokens, req, revokeDone>>

\* POST /token.
login(r, username, password) ==
    /\ Free(r)
    /\ LET q == [Idle EXCEPT !.route = "login"] IN
       req' = [req EXCEPT ![r] =
                 IF ~authenticate(username, password)
                 THEN Raise(q, 401, "Invalid credentials")
                 ELSE [Return(q, 200, "token") EXCEPT !.issued = encode_token(username, now)]]
    /\ UNCHANGED <<revoked_tokens, now, revokeDone>>

\* PUT /token, lines 78-80: the revocation test.
refresh_token_check(r, old_token) ==
    /\ Free(r)
    /\ LET q == Checked([Idle EXCEPT !.route = "refresh_token"], old_token) IN
       req' = [req EXCEPT ![r] =
                 IF old_token \in revoked_tokens
                 THEN Raise(q, 401, "Token has been revoked")
                 ELSE [q EXCEPT !.pc = "refresh_issue"]]
    /\ revoked_tokens' = refresh_effect_on_revoked(revoked_tokens, old_token)
    /\ UNCHANGED <<now, revokeDone>>

\* PUT /token, lines 81-83: decode the old token, encode the new one.
refresh_token_issue(r) ==
    /\ req[r].pc = "refresh_issue"
    /\ LET q == req[r]
           d == decode_token(q.token, now) IN
       req' = [req EXCEPT ![r] =
                 IF ~d.ok
                 THEN Raise(q, d.status, d.detail)
                 ELSE [Return(q, 200, "token") EXCEPT !.issued = encode_token(d.detail, now)]]
    /\ revoked_tokens' = refresh_effect_on_revoked(revoked_tokens, req[r].token)
    /\ UNCHANGED <<now, revokeDone>>

\* DELETE /token, line 87: the handler is entered with the bearer string.
revoke_token_begin(r, token) ==
    /\ Free(r)
    /\ req' = [req EXCEPT ![r] =
                 [Idle EXCEPT !.route = "revoke_token", !.pc = "revoke_add", !.token = token]]
    /\ UNCHANGED <<revoked_tokens, now, revokeDone>>

\* DELETE /token, lines 88-89: the add and the return.
revoke_token_add(r) ==
    /\ req[r].pc = "revoke_add"
    /\ revoked_tokens' = revoke_add(revoked_tokens, req[r].token)
    /\ req' = [req EXCEPT ![r] =
                 [Return(req[r], 200, "Token has been revoked")
                    EXCEPT !.overlapped = \E o \in Reqs \ {r} : req[o].pc = "revoke_add"]]
    /\ revokeDone' = revokeDone \cup {req[r].token}
    /\ UNCHANGED now

\* A public GET route is called: the handler is entered.
call_public(r, route) ==
    /\ Free(r)
    /\ req' = [req EXCEPT ![r] = [Idle EXCEPT !.route = route, !.pc = "get_db"]]
    /\ UNCHANGED <<revoked_tokens, now, revokeDone>>

\* A protected route is called: Depends(jwt_required) runs, then the body is
\* validated (create_customer only), then the handler is entered.
call_protected(r, route, token, payload) ==
    /\ Free(r)
    /\ LET q == Checked([Idle EXCEPT !.route = route, !.payload = payload], token)
           g == jwt_required(token, revoked_tokens, now) IN
       req' = [req EXCEPT ![r] =
                 IF ~g.ok THEN Raise(q, g.status, g.detail)
                 ELSE IF route = "create_customer" /\ ~create_customer_body(payload)
                 THEN Raise(q, 422, "validation error")
                 ELSE [q EXCEPT !.pc = "get_db"]]
    /\ UNCHANGED <<revoked_tokens, now, revokeDone>>

\* db = get_db(); create_customer hashes the password first.
get_db(r) ==
    /\ req[r].pc = "get_db"
    /\ \E ok \in BOOLEAN :
         LET q == [req[r] EXCEPT !.hashed = (req[r].route = "create_customer")] IN
         req' = [req EXCEPT ![r] =
                   IF ok THEN [q EXCEPT !.pc = "cursor", !.conn = "open"]
                   ELSE Raise(q, 500, "Database connection error")]
    /\ UNCHANGED <<revoked_tokens, now, revokeDone>>

\* cursor = db.cursor(): outside every try block.
open_cursor(r) ==
    /\ req[r].pc = "cursor"
    /\ \E ok \in BOOLEAN :
         req' = [req EXCEPT ![r] =
                   IF ok THEN [req[r] EXCEPT !.pc = "execute", !.cursor = "open"]
                   ELSE RaiseDbError(req[r])]
    /\ UNCHANGED <<revoked_tokens, now, revokeDone>>

\* cursor.execute(...): a GET handler has no try block around it; a write handler
\* maps the error to its 500, tests the row count, and closes the cursor in finally.
execute(r) ==
    /\ req[r].pc = "execute"
    /\ \E ok \in BOOLEAN, n \in 0..MaxRows :
         LET q == req[r]
             rc == IF q.route \in InsertRoutes THEN 1 ELSE n
             x == [q EXCEPT !.executed = TRUE, !.rowcount = rc] IN
         req' = [req EXCEPT ![r] =
                   IF q.route \in PublicRoutes
                   THEN IF ok THEN [q EXCEPT !.executed = TRUE, !.pc = "fetch"]
                        ELSE RaiseDbError(q)
                   ELSE IF ~ok
                        THEN Raise([q EXCEPT !.cursor = "closed"], 500, ErrorDetail(q.route))
                   ELSE IF row_missing(q.route, rc)
                        THEN Raise([x EXCEPT !.cursor = "closed"], 404, NotFoundDetail(q.route))
                   ELSE [x EXCEPT !.pc = "commit"]]
    /\ UNCHANGED <<revoked_tokens, now, revokeDone>>

\* rows = cursor.fetchall() / fetchone(); cursor.close(); the 404 test; return.
fetch(r) ==
    /\ req[r].pc = "fetch"
    /\ \E ok \in BOOLEAN, n \in 0..MaxRows :
         LET q == req[r]
             x == [q EXCEPT !.rowcount = n, !.cursor = "closed"] IN
         req' = [req EXCEPT ![r] =
                   IF ~ok THEN RaiseDbError(q)
                   ELSE IF rows_missing(q.route, n)
                        THEN Raise(x, 404, NotFoundDetail(q.route))
                   ELSE Return(x, 200, SuccessDetail(q.route))]
    /\ UNCHANGED <<revoked_tokens, now, revokeDone>>

\* db.commit(), then finally: cursor.close(), then the return.
commit(r) ==
    /\ req[r].pc = "commit"
    /\ \E ok \in BOOLEAN :
         LET q == [req[r] EXCEPT !.cursor = "closed"] IN
         req' = [req EXCEPT ![r] =
                   IF ok
                   THEN Return([q EXCEPT !.commit = "ok"],
                               SuccessStatus(q.route), SuccessDetail(q.route))
                   ELSE Raise([q EXCEPT !.commit = "failed"], 500, ErrorDetail(q.route))]
    /\ UNCHANGED <<revoked_tokens, now, revokeDone>>

Next ==
    \/ Tick
    \/ \E r \in Callers, u \in Usernames, p \in Passwords : login(r, u, p)
    \/ \E r \in Callers, t \in Tokens : refresh_token_check(r, t)
    \/ \E r \in Callers : refresh_token_issue(r)
    \/ \E r \in Reqs, t \in Tokens : revoke_token_begin(r, t)
    \/ \E r \in Reqs : revoke_token_add(r)
    \/ \E r \in Callers, route \in PublicRoutes : call_public(r, route)
    \/ \E r \in Callers, route \in ProtectedRoutes, t \in Tokens :
         \E p \in (IF route = "create_customer" THEN Payloads ELSE {NoPayload}) :
           call_protected(r, route, t, p)
    \/ \E r \in Callers : get_db(r)
    \/ \E r \in Callers : open_cursor(r)
    \/ \E r \in Callers : execute(r)
    \/ \E r \in Callers : fetch(r)
    \/ \E r \in Callers : commit(r)

Spec == Init /\ [][Next]_vars

(* ============================== claims ================================ *)

\* A request of client r arrives in this step (its record is rewritten from a
\* free slot).
Arrives(r) == Free(r) /\ req'[r] # req[r]

Rejected401Revoked(q) ==
    /\ q.pc = "done"
    /\ q.raised = "HTTPException"
    /\ q.status = 401
    /\ q.detail = "Token has been revoked"

NoDatabaseAccess(q) ==
    /\ q.conn = "none"
    /\ q.cursor = "none"
    /\ ~q.executed
    /\ q.commit = "none"

\* C1: once a DELETE /token presenting t has completed, every request that
\* arrives later and presents t to the authorization gate of a protected route
\* or to PUT /token ends with 401 "Token has been revoked", whether or not t
\* decodes or has expired, and whatever requests came in between.
C1_RevocationTerminal ==
    [][\A r \in Reqs :
         ( /\ Arrives(r)
           /\ req'[r].route \in ProtectedRoutes \cup {"refresh_token"}
           /\ req'[r].token \in revokeDone )
         => /\ Rejected401Revoked(req'[r])
            /\ NoDatabaseAccess(req'[r])
            /\ req'[r].issued = NoToken]_vars

\* C1 witness: a protected request presenting a token whose revocation had
\* completed, and which no longer decodes either, was answered.
C1_Witness ==
    \E r \in Reqs :
        /\ req[r].route \in ProtectedRoutes
        /\ req[r].pc = "done"
        /\ req[r].revokeDoneAtCheck
        /\ ~req[r].decodedAtCheck

\* C2: a protected handler hashes, connects, executes or commits only if the
\* gate of that same request found its token absent from revoked_tokens and
\* decodable; a request whose token was revoked or did not decode ends in 401
\* with no database access.
C2_WritesRequireValidToken ==
    \A r \in Reqs :
        req[r].route \in ProtectedRoutes =>
            /\ ( \/ req[r].pc \in {"get_db", "cursor", "execute", "commit"}
                 \/ req[r].hashed
                 \/ ~NoDatabaseAccess(req[r]) )
               => (~req[r].revokedAtCheck /\ req[r].decodedAtCheck)
            /\ (req[r].revokedAtCheck \/ ~req[r].decodedAtCheck)
               => /\ req[r].pc = "done"
                  /\ req[r].raised = "HTTPException"
                  /\ req[r].status = 401
                  /\ ~req[r].hashed
                  /\ NoDatabaseAccess(req[r])

\* C2 witness: a protected handler has executed and committed its statement.
C2_Witness ==
    \E r \in Reqs :
        /\ req[r].route \in ProtectedRoutes
        /\ req[r].executed
        /\ req[r].commit = "ok"

\* C3: no revocation is lost under concurrent DELETE /token requests (every
\* token whose revoke has completed is in revoked_tokens), and every gate or
\* refresh check that ran after the revoke of its token had completed saw the
\* token as revoked.
C3_RevokedSetConcurrencySafe ==
    /\ revokeDone \subseteq revoked_tokens
    /\ \A r \in Reqs :
         (req[r].route \in ProtectedRoutes \cup {"refresh_token"} /\ req[r].revokeDoneAtCheck)
         => Rejected401Revoked(req[r])

\* C3 witness: two DELETE /token requests for different tokens overlapped, both
\* have completed, and both tokens are in the set.
C3_Witness ==
    /\ req["c1"].route = "revoke_token" /\ req["c1"].pc = "done"
    /\ req["c2"].route = "revoke_token" /\ req["c2"].pc = "done"
    /\ req["c1"].token # req["c2"].token
    /\ req["c1"].overlapped \/ req["c2"].overlapped
    /\ {req["c1"].token, req["c2"].token} \subseteq revoked_tokens

\* C4: every handler that touches the database has closed both its cursor and
\* its connection by the time it returns or raises.
C4_GuaranteedRelease ==
    \A r \in Reqs :
        (req[r].route \in DbRoutes /\ req[r].pc = "done")
        => /\ req[r].conn \in {"none", "closed"}
           /\ req[r].cursor \in {"none", "closed"}

\* C5: no database route lets a raw mysql.connector.Error leave the handler;
\* every database failure ends in an HTTPException with status 500.
C5_DatabaseErrorsMapped ==
    \A r \in Reqs :
        (req[r].route \in DbRoutes /\ req[r].pc = "done")
        => req[r].raised # "mysql.connector.Error"

\* The 404 messages C6 names, route by route.
C6_Message(route) ==
    CASE route = "update_customer_address" -> "Address not found"
      [] route = "update_film_title" -> "Film not found"
      [] route = "delete_customer" -> "Customer not found"
      [] route = "delete_film" -> "Film not found"

\* C6, the part that holds as claimed: a zero-row update or delete ends in 404
\* with the resource's message and no commit; a commit is only issued after an
\* execute that succeeded and matched a row, and it is issued whenever the
\* execute matched a row.
C6_ZeroRowIsNotFound ==
    \A r \in Reqs :
        /\ req[r].route \in MutateRoutes =>
             /\ (req[r].executed /\ req[r].rowcount = 0)
                => /\ req[r].pc = "done"
                   /\ req[r].raised = "HTTPException"
                   /\ req[r].status = 404
                   /\ req[r].detail = C6_Message(req[r].route)
                   /\ req[r].commit = "none"
             /\ (req[r].pc = "done" /\ req[r].executed /\ req[r].rowcount >= 1)
                => req[r].commit # "none"
        /\ req[r].route \in ProtectedRoutes =>
             (req[r].commit # "none" => (req[r].executed /\ req[r].rowcount >= 1))

\* C6 as amended: as above, and when a row is affected the 200 success message
\* is returned if the commit succeeds, the operation's 500 error if it fails.
C6_Amended ==
    /\ C6_ZeroRowIsNotFound
    /\ \A r \in Reqs :
         req[r].route \in MutateRoutes =>
             /\ req[r].commit = "ok"
                => /\ req[r].pc = "done" /\ req[r].raised = "none"
                   /\ req[r].status = 200
                   /\ req[r].detail = SuccessDetail(req[r].route)
             /\ req[r].commit = "failed"
                => /\ req[r].pc = "done" /\ req[r].raised = "HTTPException"
                   /\ req[r].status = 500
                   /\ req[r].detail = ErrorDetail(req[r].route)

\* C6 as claimed: when at least one row is affected the handler ends with the
\* 200 success message.
C6_Original ==
    /\ C6_ZeroRowIsNotFound
    /\ \A r \in Reqs :
         ( /\ req[r].route \in MutateRoutes
           /\ req[r].pc = "done" /\ req[r].executed /\ req[r].rowcount >= 1 )
         => (req[r].raised = "none" /\ req[r].status = 200)

\* C6 witness: an update or delete matched no row and was answered.
C6_Witness ==
    \E r \in Reqs :
        /\ req[r].route \in MutateRoutes
        /\ req[r].pc = "done"
        /\ req[r].executed
        /\ req[r].rowcount = 0

\* The gate of request q let it through.
GatePassed(q) == ~q.revokedAtCheck /\ q.decodedAtCheck

\* C7 as claimed: a POST /customers/new with a valid token whose payload breaks
\* a rule of the validated schema ends in a validation error with no hashing,
\* connection or INSERT.
C7_Original ==
    \A r \in Reqs :
        ( /\ req[r].route = "create_customer"
          /\ GatePassed(req[r])
          /\ ~schemas_CustomerCreate(req[r].payload) )
        => /\ req[r].pc = "done"
           /\ req[r].status = 422
           /\ ~req[r].hashed
           /\ NoDatabaseAccess(req[r])

\* C7 as amended: POST /customers/new with a valid token ends in a validation
\* error exactly when the body lacks a field of main.CustomerCreate or gives one
\* the wrong type, and then nothing is hashed and the database is not touched;
\* name lengths, email syntax and password length are not checked by the route.
C7_Amended ==
    \A r \in Reqs :
        (req[r].route = "create_customer" /\ GatePassed(req[r]))
        => /\ (req[r].status = 422) <=> ~req[r].payload.typed
           /\ req[r].status = 422
              => /\ req[r].pc = "done"
                 /\ req[r].raised = "HTTPException"
                 /\ ~req[r].hashed
                 /\ NoDatabaseAccess(req[r])

\* C7 witness: a payload the validated schema rejects (a 46-character first
\* name) was hashed and inserted.
C7_Witness ==
    \E r \in Reqs :
        /\ req[r].route = "create_customer"
        /\ req[r].payload.first_name = 46
        /\ ~schemas_CustomerCreate(req[r].payload)
        /\ req[r].hashed
        /\ req[r].commit = "ok"

\* C8: no step of login or refresh changes revoked_tokens, and a token that is
\* neither revoked nor expired is accepted by the gate and by refresh, which
\* answers with a token, however many refreshes came before.
C8_RefreshKeepsOldToken ==
    [][\A r \in Reqs :
         /\ (req'[r] # req[r] /\ req'[r].route \in {"login", "refresh_token"})
            => revoked_tokens' = revoked_tokens
         /\ ( /\ Arrives(r)
              /\ req'[r].route \in ProtectedRoutes \cup {"refresh_token"}
              /\ req'[r].token \notin revoked_tokens
              /\ req'[r].token.sig = "good" /\ now < req'[r].token.exp )
            => req'[r].status # 401
         /\ ( /\ req[r].pc = "refresh_issue" /\ req'[r].pc = "done"
              /\ req[r].token.sig = "good" /\ now < req[r].token.exp )
            => /\ req'[r].raised = "none" /\ req'[r].status = 200
               /\ req'[r].issued.sig = "good"
               /\ req'[r].issued.sub = req[r].token.sub]_vars

\* C8 witness: a refresh presenting t has returned a token, and t is still
\* unrevoked and unexpired.
C8_Witness ==
    \E r \in Reqs :
        /\ req[r].route = "refresh_token"
        /\ req[r].pc = "done"
        /\ req[r].status = 200
        /\ req[r].issued # NoToken
        /\ req[r].token \notin revoked_tokens
        /\ now < req[r].token.exp

\* C9: DELETE /token never fails and returns "Token has been revoked" for any
\* bearer string; the set afterwards is the set before plus the token, so a
\* second revoke changes nothing; no step removes an entry.
C9_RevokeIdempotent ==
    [][/\ \A r \in Reqs :
            (req[r].pc = "revoke_add" /\ req'[r] # req[r])
            => /\ revoked_tokens' = revoked_tokens \cup {req[r].token}
               /\ req[r].token \in revoked_tokens => revoked_tokens' = revoked_tokens
               /\ req'[r].pc = "done" /\ req'[r].raised = "none"
               /\ req'[r].status = 200
               /\ req'[r].detail = "Token has been revoked"
       /\ revoked_tokens \subseteq revoked_tokens']_vars

\* C9 witness: the same undecodable bearer string has been revoked twice, both
\* times with the success message.
C9_Witness ==
    /\ req["c1"].route = "revoke_token" /\ req["c1"].pc = "done"
    /\ req["c2"].route = "revoke_token" /\ req["c2"].pc = "done"
    /\ req["c1"].token = Garbage /\ req["c2"].token = Garbage
    /\ req["c1"].status = 200 /\ req["c2"].status = 200

\* Request r executes or commits its statement in this step.
ExecutesOrCommits(r) ==
    \/ ~req[r].executed /\ req'[r].executed
    \/ req[r].commit = "none" /\ req'[r].commit # "none"

\* C10 as claimed: a protected handler never executes or commits its statement
\* at a moment when its token is in revoked_tokens.
C10_Original ==
    [][\A r \in Reqs :
         (req[r].route \in ProtectedRoutes /\ ExecutesOrCommits(r))
         => req[r].token \notin revoked_tokens]_vars

\* C10 as amended: a protected handler executes or commits its statement only
\* if its token was absent from revoked_tokens when the gate of that request
\* ran; a revoke that completes after the gate does not stop the statement.
C10_Amended ==
    [][\A r \in Reqs :
         (req[r].route \in ProtectedRoutes /\ ExecutesOrCommits(r))
         => (~req[r].revokedAtCheck /\ ~req[r].revokeDoneAtCheck)]_vars

\* C10 witness: a statement was committed for a token whose revocation completed
\* after the gate had let the request through.
C10_Witness ==
    \E r \in Reqs :
        /\ req[r].route \in ProtectedRoutes
        /\ req[r].commit = "ok"
        /\ ~req[r].revokedAtCheck
        /\ req[r].token \in revokeDone

====
